---- MODULE Spec2Model ----
(***************************************************************************)
(* Nearest-neighbour data descriptors (NND, LNND, LOF) and the OWA         *)
(* operators of frlearn.neighbours.                                        *)
(*                                                                         *)
(* Floating-point values are modelled as exact extended rationals: a       *)
(* finite rational n/d, +infinity, NaN, the largest finite float (the      *)
(* value np.nan_to_num puts in place of +infinity) and its reciprocal.     *)
(* Rounding of finite values is not modelled.  Array indices are 1-based   *)
(* here and 0-based in the source.                                         *)
(***************************************************************************)
EXTENDS Integers, Sequences, FiniteSets

VARIABLES
    phase,        \* "unfitted", "fitted", "returned" (a query call ended), "failed", "owa"
    descriptor,   \* the hyperparameters: type, k, proximity, owa
    index,        \* the neighbour index: the reference points
    description,  \* the Description fit returned, as it is now
    fitted,       \* the Description as it was when fit returned
    raised,       \* "none", "fit" or "query": the call that raised
    queried,      \* whether an earlier query call has completed
    lastQ,        \* the batch of the query call that just ended
    lastS,        \* its scores
    op,           \* an OWAOperator
    vals,         \* the values it is applied to
    out           \* the operation applied and its result

vars == <<phase, descriptor, index, description, fitted, raised, queried, lastQ, lastS,
          op, vals, out>>

(***************************************************************************)
(* Bounds of the model.                                                    *)
(***************************************************************************)
\* largest coordinate of a reference or query point (1-D, 0..MaxCoord)
MaxCoord == 1

\* largest reference-set size
MaxRef == 3

\* OWA operators: longest weight vector, largest weight, longest input, largest value
MaxOwaLen == 3

MaxWeight == 2

MaxValLen == 3

MaxVal == 2

(***************************************************************************)
(* float64 values as numpy computes with them.                             *)
(***************************************************************************)
Abs(x) == IF x < 0 THEN -x ELSE x

RECURSIVE GCD(_, _)
GCD(a, b) == IF b = 0 THEN a ELSE GCD(b, a % b)

Fin(n, d) == [kind |-> "fin", n |-> n, d |-> d]

Norm(n, d) ==
    LET g == GCD(Abs(n), d)
    IN  IF n = 0 THEN Fin(0, 1) ELSE Fin(n \div g, d \div g)

Int2F(i) == Fin(i, 1)

Zero == Fin(0, 1)

One == Fin(1, 1)

Inf == [kind |-> "inf", n |-> 0, d |-> 0]

NaN == [kind |-> "nan", n |-> 0, d |-> 0]

\* the largest finite float64 and 1/(1 + it)
FloatMax == [kind |-> "max", n |-> 0, d |-> 0]

FloatTiny == [kind |-> "tiny", n |-> 0, d |-> 0]

IsNaN(x) == x.kind = "nan"

IsFin(x) == x.kind = "fin"

FNeg(x) == IF IsFin(x) THEN Fin(-x.n, x.d) ELSE x

FAbs(x) == IF IsFin(x) THEN Fin(Abs(x.n), x.d) ELSE x

\* x + y for operands that are never -infinity
FAdd(x, y) ==
    CASE IsNaN(x) \/ IsNaN(y) -> NaN
      [] x.kind = "inf" \/ y.kind = "inf" -> Inf
      [] x.kind = "max" /\ IsFin(y) -> FloatMax
      [] IsFin(x) /\ y.kind = "max" -> FloatMax
      [] IsFin(x) /\ IsFin(y) -> Norm(x.n * y.d + y.n * x.d, x.d * y.d)

\* x - y for finite or NaN operands and for +infinity minus a finite value
FSub(x, y) ==
    CASE IsNaN(x) \/ IsNaN(y) -> NaN
      [] x.kind = "inf" /\ y.kind = "inf" -> NaN
      [] x.kind = "inf" /\ IsFin(y) -> Inf
      [] IsFin(x) /\ IsFin(y) -> Norm(x.n * y.d - y.n * x.d, x.d * y.d)

\* x * y for non-negative infinite operands
FMul(x, y) ==
    CASE IsNaN(x) \/ IsNaN(y) -> NaN
      [] x.kind = "inf" /\ y.kind = "inf" -> Inf
      [] x.kind = "inf" /\ IsFin(y) -> IF y.n = 0 THEN NaN ELSE Inf
      [] IsFin(x) /\ y.kind = "inf" -> IF x.n = 0 THEN NaN ELSE Inf
      [] IsFin(x) /\ IsFin(y) -> Norm(x.n * y.n, x.d * y.d)

\* x / y with numpy's warnings ignored, for operands >= 0
FDiv(x, y) ==
    CASE IsNaN(x) \/ IsNaN(y) -> NaN
      [] x.kind = "inf" /\ y.kind = "inf" -> NaN
      [] x.kind = "inf" /\ IsFin(y) -> Inf
      [] IsFin(x) /\ y.kind = "inf" -> Zero
      [] IsFin(x) /\ y.kind = "max" -> IF x.n = 0 THEN Zero ELSE FloatTiny
      [] IsFin(x) /\ IsFin(y) ->
            IF y.n = 0
            THEN (IF x.n = 0 THEN NaN ELSE Inf)
            ELSE IF y.n > 0 THEN Norm(x.n * y.d, x.d * y.n)
                 ELSE Norm(-(x.n * y.d), x.d * (-y.n))

\* x < y; false when either is NaN
FLt(x, y) ==
    CASE IsNaN(x) \/ IsNaN(y) -> FALSE
      [] x.kind = "inf" -> FALSE
      [] y.kind = "inf" -> TRUE
      [] IsFin(x) /\ IsFin(y) -> x.n * y.d < y.n * x.d

\* np.maximum: the larger value, NaN if either is NaN
np_maximum(x, y) ==
    IF IsNaN(x) \/ IsNaN(y) THEN NaN ELSE IF FLt(x, y) THEN y ELSE x

\* infinities left as they are
np_nan_to_num_keep(x) == x

\* np.nan_to_num(x, nan=np.nan): +infinity becomes the largest finite float
np_nan_to_num(x) == IF x.kind = "inf" THEN FloatMax ELSE x

RECURSIVE np_sum(_)
np_sum(s) == IF s = <<>> THEN Zero ELSE FAdd(Head(s), np_sum(Tail(s)))

\* np.mean(s, axis=-1) of one row
np_mean(s) == FDiv(np_sum(s), Int2F(Len(s)))

\* np.flip
np_flip(s) == [i \in 1..Len(s) |-> s[Len(s) + 1 - i]]

\* the order np.sort puts values in: ascending, NaN last
SortsBefore(x, y) == IsNaN(y) \/ (~IsNaN(x) /\ ~FLt(y, x))

RECURSIVE InsertSorted(_, _)
InsertSorted(x, s) ==
    IF s = <<>> THEN <<x>>
    ELSE IF SortsBefore(x, Head(s)) THEN <<x>> \o s
         ELSE <<Head(s)>> \o InsertSorted(x, Tail(s))

RECURSIVE np_sort(_)
np_sort(s) == IF s = <<>> THEN <<>> ELSE InsertSorted(Head(s), np_sort(Tail(s)))

\* utils.np_utils.shifted_reciprocal: x |-> 1 / (1 + x)
shifted_reciprocal(x) == FDiv(One, FAdd(One, x))

\* utils.np_utils.div_or(x, y, fallback): x / y, with 0/0 taken as fallback
div_or(x, y, fallback) ==
    IF IsFin(x) /\ IsFin(y) /\ x.n = 0 /\ y.n = 0 THEN fallback ELSE FDiv(x, y)

\* utils.limit_and_sort(v, k, axis=-1) of one row: k > 0 gives the k smallest
\* values in ascending order, k < 0 the -k largest values in descending order
limit_and_sort(v, k) ==
    IF k > 0 THEN SubSeq(np_sort(v), 1, k)
    ELSE np_flip(SubSeq(np_sort(v), Len(v) + k + 1, Len(v)))

(***************************************************************************)
(* OWAOperator (owa_operators.py).                                         *)
(***************************************************************************)
OWAOperator(w, max_like) == [w |-> w, k |-> Len(w), max_like |-> max_like]

RECURSIVE Dot(_, _)
Dot(v, w) ==
    IF v = <<>> THEN Zero ELSE FAdd(FMul(Head(v), Head(w)), Dot(Tail(v), Tail(w)))

\* OWAOperator._apply on one row
OWA_apply(o, v, as_soft_max) ==
    LET w  == IF o.max_like /\ as_soft_max THEN o.w ELSE np_flip(o.w)
        vv == IF as_soft_max THEN limit_and_sort(v, -o.k)
              ELSE np_flip(limit_and_sort(v, o.k))
    IN  Dot(vv, w)

soft_max(o, v) == OWA_apply(o, v, TRUE)

soft_min(o, v) == OWA_apply(o, v, FALSE)

RECURSIVE Pow2(_)
Pow2(j) == IF j = 0 THEN 1 ELSE 2 * Pow2(j - 1)

strict == OWAOperator(<<One>>, TRUE)

additive(k) == OWAOperator([i \in 1..k |-> Norm(2 * i, k * (k + 1))], FALSE)

exponential(k) ==
    OWAOperator(np_flip([i \in 1..k |-> Norm(Pow2(i - 1), Pow2(k) - 1)]), TRUE)

invadd(k) ==
    LET h == np_sum([i \in 1..k |-> Norm(1, i)])
    IN  OWAOperator([i \in 1..k |-> FDiv(One, FMul(Int2F(i), h))], TRUE)

mean(k) == OWAOperator([i \in 1..k |-> Norm(1, k)], FALSE)

trimmed(k) == OWAOperator([i \in 1..k |-> IF i = k THEN One ELSE Zero], FALSE)

\* OWAOperator.family: the constructor k -> OWAOperator of a named family
family(name, k) ==
    CASE name = "additive" -> additive(k)
      [] name = "exponential" -> exponential(k)
      [] name = "invadd" -> invadd(k)
      [] name = "mean" -> mean(k)
      [] name = "trimmed" -> trimmed(k)

Families == {"additive", "exponential", "invadd", "mean", "trimmed"}

(***************************************************************************)
(* The neighbour index: exact search over 1-D reference points, ties by    *)
(* lower position.  index is the sequence of reference points.             *)
(***************************************************************************)
Dist(a, b) ==
    IF IsFin(a) /\ IsFin(b) /\ a.d = 1 /\ b.d = 1 THEN Fin(Abs(a.n - b.n), 1)
    ELSE FAbs(FSub(a, b))

Before(ref, p, i, j) ==
    \/ FLt(Dist(p, ref[i]), Dist(p, ref[j]))
    \/ (~FLt(Dist(p, ref[j]), Dist(p, ref[i])) /\ i <= j)

Nearest(ref, p, cand) == CHOOSE i \in cand : \A j \in cand : Before(ref, p, i, j)

RECURSIVE KNearest(_, _, _, _)
KNearest(ref, p, k, cand) ==
    IF k = 0 THEN <<>>
    ELSE LET i == Nearest(ref, p, cand)
         IN  <<i>> \o KNearest(ref, p, k - 1, cand \ {i})

\* index.query(X, k) and index.query_self(k) raise on a k they cannot serve
QueryAccepts(ref, k) == k \in 1..Len(ref)

SelfQueryAccepts(ref, k) == k \in 1..(Len(ref) - 1)

DistancesTo(ref, p, nbrs) == [c \in 1..Len(nbrs) |-> Dist(p, ref[nbrs[c]])]

index_query(ref, X, k) ==
    LET nb == [r \in 1..Len(X) |-> KNearest(ref, X[r], k, 1..Len(ref))]
    IN  [neighbours |-> nb,
         distances |-> [r \in 1..Len(X) |-> DistancesTo(ref, X[r], nb[r])]]

index_query_self(ref, k) ==
    LET nb == [r \in 1..Len(ref) |-> KNearest(ref, ref[r], k, (1..Len(ref)) \ {r})]
    IN  [neighbours |-> nb,
         distances |-> [r \in 1..Len(ref) |-> DistancesTo(ref, ref[r], nb[r])]]

(***************************************************************************)
(* Descriptors and Descriptions (descriptors.py).                          *)
(***************************************************************************)
\* a callable k: a function of the reference-set size
KFun(f, n) == IF f = "size" THEN n ELSE n - 1

\* k forced into 1..n
ResolveK_clamped(k, n) ==
    LET raw == IF k.callable THEN KFun(k.f, n) ELSE k.val
    IN  IF raw < 1 THEN 1 ELSE IF raw > n THEN n ELSE raw

\* NNDescriptor.Description.__init__: k resolved once, the index kept
ResolveK(k, n) == IF k.callable THEN KFun(k.f, n) ELSE k.val

NoDescription ==
    [type |-> "none", k |-> 0, index |-> <<>>, proximity |-> "none", owa |-> "none",
     distances |-> <<>>, lrd |-> <<>>]

NNDescriptor_init(d, ref) ==
    [NoDescription EXCEPT !.type = d.type, !.k = ResolveK(d.k, Len(ref)), !.index = ref]

\* NND.Description.__init__
NND_init(d, ref) ==
    [NNDescriptor_init(d, ref) EXCEPT !.proximity = d.proximity, !.owa = d.owa]

\* the first column in place of the k-th
KthColumn_first(m, k) == [r \in 1..Len(m) |-> m[r][1]]

\* column k of a distance matrix: distances[:, k-1]
KthColumn(m, k) == [r \in 1..Len(m) |-> m[r][k]]

\* LNND.Description.__init__ (after index.query_self(k) returned)
LNND_init(d, ref) ==
    LET self == NNDescriptor_init(d, ref)
        q    == index_query_self(ref, self.k)
    IN  [self EXCEPT !.distances = KthColumn(q.distances, self.k)]

\* the distances alone, without the neighbours' self-distances as a floor
LOF_get_lrd_no_floor(self, q_neighbours, q_distances) ==
    [r \in 1..Len(q_distances) |-> FDiv(One, np_mean(q_distances[r]))]

\* LOF.Description._get_lrd
LOF_get_lrd(self, q_neighbours, q_distances) ==
    [r \in 1..Len(q_distances) |->
        FDiv(One, np_mean([c \in 1..Len(q_distances[r]) |->
            np_maximum(q_distances[r][c], self.distances[q_neighbours[r][c]])]))]

\* LOF.Description.__init__ (after index.query_self(k) returned)
LOF_init(d, ref) ==
    LET self == NNDescriptor_init(d, ref)
        q    == index_query_self(ref, self.k)
        s1   == [self EXCEPT !.distances = KthColumn(q.distances, self.k)]
    IN  [s1 EXCEPT !.lrd = LOF_get_lrd(s1, q.neighbours, q.distances)]

\* the proximity hyperparameter applied to one distance
Proximity(name, x) == shifted_reciprocal(x)

\* the soft minimum in place of the soft maximum
NND_query_soft_min(self, q_neighbours, q_distances) ==
    [scores |-> [r \in 1..Len(q_distances) |->
                    soft_min(family(self.owa, self.k),
                             [c \in 1..Len(q_distances[r]) |->
                                 Proximity(self.proximity, q_distances[r][c])])],
     self |-> self]

\* NND.Description._query: the scores and the Description after the call
NND_query(self, q_neighbours, q_distances) ==
    [scores |-> [r \in 1..Len(q_distances) |->
                    soft_max(family(self.owa, self.k),
                             [c \in 1..Len(q_distances[r]) |->
                                 Proximity(self.proximity, q_distances[r][c])])],
     self |-> self]

\* LNND.Description._query, up to np.nan_to_num: the localised distances
LNND_l_distances(self, q_neighbours, q_distances) ==
    [r \in 1..Len(q_distances) |->
        np_nan_to_num(div_or(q_distances[r][self.k],
                             self.distances[q_neighbours[r][self.k]], One))]

\* LNND.Description._query
LNND_query(self, q_neighbours, q_distances) ==
    LET l_distances == LNND_l_distances(self, q_neighbours, q_distances)
    IN  [scores |-> [r \in 1..Len(l_distances) |-> shifted_reciprocal(l_distances[r])],
         self |-> self]

\* NaN left in place
NanToOne_keep(x) == x

\* lof[np.isnan(lof)] = 1
NanToOne(x) == IF IsNaN(x) THEN One ELSE x

\* the query point's densities stored over the fitted ones
LOF_query_stores_lrd(self, q_neighbours, q_distances) ==
    LET q_lrd == LOF_get_lrd(self, q_neighbours, q_distances)
        lof   == [r \in 1..Len(q_distances) |->
                    NanToOne(FDiv(np_mean([c \in 1..Len(q_neighbours[r]) |->
                                              self.lrd[q_neighbours[r][c]]]),
                                  q_lrd[r]))]
    IN  [scores |-> [r \in 1..Len(lof) |-> shifted_reciprocal(lof[r])],
         self |-> [self EXCEPT !.lrd = q_lrd]]

\* LOF.Description._query
LOF_query(self, q_neighbours, q_distances) ==
    LET q_lrd == LOF_get_lrd(self, q_neighbours, q_distances)
        lof   == [r \in 1..Len(q_distances) |->
                    NanToOne(FDiv(np_mean([c \in 1..Len(q_neighbours[r]) |->
                                              self.lrd[q_neighbours[r][c]]]),
                                  q_lrd[r]))]
    IN  [scores |-> [r \in 1..Len(lof) |-> shifted_reciprocal(lof[r])],
         self |-> self]

\* NNDescriptor.Description.query, once index.query(X, k) returned
Description_query(self, X) ==
    LET q == index_query(self.index, X, self.k)
    IN  CASE self.type = "NND" -> NND_query(self, q.neighbours, q.distances)
          [] self.type = "LNND" -> LNND_query(self, q.neighbours, q.distances)
          [] self.type = "LOF" -> LOF_query(self, q.neighbours, q.distances)

\* Descriptor.fit's construction of the Description of the descriptor's type
Description_init(d, ref) ==
    CASE d.type = "NND" -> NND_init(d, ref)
      [] d.type = "LNND" -> LNND_init(d, ref)
      [] d.type = "LOF" -> LOF_init(d, ref)

\* whether constructing the Description raises: only index.query_self can
FitRaises(d, ref) ==
    d.type \in {"LNND", "LOF"} /\ ~SelfQueryAccepts(ref, ResolveK(d.k, Len(ref)))

(***************************************************************************)
(* Inputs.                                                                 *)
(***************************************************************************)
Coords == {Int2F(c) : c \in 0..MaxCoord}

SeqsOver(S, lo, hi) == UNION {[1..n -> S] : n \in lo..hi}

\* reference sets are listed in nondecreasing order of position: a permutation
\* of the reference set only renames the neighbour indices
Sorted(s) == \A i \in 1..(Len(s) - 1) : ~FLt(s[i + 1], s[i])

\* the end-to-end scenario: reference points 0,1,2,3 queried with [[0],[10]]
ScenarioRef == <<Int2F(0), Int2F(1), Int2F(2), Int2F(3)>>

ScenarioQuery == <<Int2F(0), Int2F(10)>>

RefSets == {s \in SeqsOver(Coords, 2, MaxRef) : Sorted(s)} \cup {ScenarioRef}

KChoices ==
    {[callable |-> FALSE, val |-> i, f |-> "none"] : i \in 0..MaxRef}
    \cup {[callable |-> TRUE, val |-> 0, f |-> g] : g \in {"size", "size_less_one"}}

Descriptors ==
    {[type |-> "NND", k |-> k, proximity |-> "shifted_reciprocal", owa |-> o] :
        k \in KChoices, o \in Families}
    \cup {[type |-> t, k |-> k, proximity |-> "none", owa |-> "none"] :
        t \in {"LNND", "LOF"}, k \in KChoices}

Batches(points) == SeqsOver(points, 1, 2) \cup {ScenarioQuery}

NoOp == [w |-> <<>>, k |-> 0, max_like |-> FALSE]

NoOut == [kind |-> "none", value |-> Zero]

(***************************************************************************)
(* The fit/query protocol.                                                 *)
(***************************************************************************)
InitWith(refs) ==
    /\ phase = "unfitted"
    /\ descriptor \in Descriptors
    /\ index \in refs
    /\ description = NoDescription
    /\ fitted = NoDescription
    /\ raised = "none"
    /\ queried = FALSE
    /\ lastQ = <<>>
    /\ lastS = <<>>
    /\ op = NoOp
    /\ vals = <<>>
    /\ out = NoOut

Init == InitWith(RefSets)

\* descriptor.fit(referenceSet, index)
Fit ==
    /\ phase = "unfitted"
    /\ IF FitRaises(descriptor, index)
       THEN /\ phase' = "failed"
            /\ raised' = "fit"
            /\ UNCHANGED <<description, fitted>>
       ELSE /\ phase' = "fitted"
            /\ raised' = "none"
            /\ description' = Description_init(descriptor, index)
            /\ fitted' = description'
    /\ UNCHANGED <<descriptor, index, queried, lastQ, lastS, op, vals, out>>

\* description.query(X): the call, up to its return or its exception
QueryWith(points) ==
    /\ phase = "fitted"
    /\ \E X \in Batches(points) :
          /\ lastQ' = X
          /\ IF QueryAccepts(description.index, description.k)
             THEN LET r == Description_query(description, X)
                  IN  /\ phase' = "returned"
                      /\ raised' = "none"
                      /\ lastS' = r.scores
                      /\ description' = r.self
             ELSE /\ phase' = "returned"
                  /\ raised' = "query"
                  /\ lastS' = <<>>
                  /\ UNCHANGED description
    /\ UNCHANGED <<descriptor, index, fitted, queried, op, vals, out>>

Query == QueryWith(Coords)

\* the caller takes the scores (or the exception); the Description stays usable
Consume ==
    /\ phase = "returned"
    /\ phase' = "fitted"
    /\ raised' = "none"
    /\ queried' = TRUE
    /\ lastQ' = <<>>
    /\ lastS' = <<>>
    /\ UNCHANGED <<descriptor, index, description, fitted, op, vals, out>>

Next == Fit \/ Query \/ Consume

Spec == Init /\ [][Next]_vars

(***************************************************************************)
(* The same protocol with query points that have a NaN or an infinite      *)
(* coordinate, which the index answers with NaN or infinite distances.     *)
(***************************************************************************)
QueryNonFinite == QueryWith(Coords \cup {NaN, Inf})

NextNonFinite == Fit \/ QueryNonFinite \/ Consume

SpecNonFinite == Init /\ [][NextNonFinite]_vars

(***************************************************************************)
(* OWA operators applied on their own.                                     *)
(***************************************************************************)
Weights == {Int2F(i) : i \in 0..MaxWeight}

Values == {Int2F(i) : i \in 0..MaxVal}

Operators ==
    {OWAOperator(w, m) : w \in SeqsOver(Weights, 1, MaxOwaLen), m \in BOOLEAN}
    \cup {family(f, k) : f \in Families, k \in 1..MaxOwaLen}
    \cup {strict}

InitOWA ==
    /\ phase = "owa"
    /\ descriptor = [type |-> "none"]
    /\ index = <<>>
    /\ description = NoDescription
    /\ fitted = NoDescription
    /\ raised = "none"
    /\ queried = FALSE
    /\ lastQ = <<>>
    /\ lastS = <<>>
    /\ op \in Operators
    /\ vals \in SeqsOver(Values, 1, MaxValLen)
    /\ Len(vals) >= op.k
    /\ out = NoOut

\* operator.soft_max(v)
SoftMax ==
    /\ phase = "owa"
    /\ out' = [kind |-> "soft_max", value |-> soft_max(op, vals)]
    /\ UNCHANGED <<phase, descriptor, index, description, fitted, raised, queried,
                   lastQ, lastS, op, vals>>

\* operator.soft_min(v)
SoftMin ==
    /\ phase = "owa"
    /\ out' = [kind |-> "soft_min", value |-> soft_min(op, vals)]
    /\ UNCHANGED <<phase, descriptor, index, description, fitted, raised, queried,
                   lastQ, lastS, op, vals>>

NextOWA == SoftMax \/ SoftMin

SpecOWA == InitOWA /\ [][NextOWA]_vars

(***************************************************************************)
(* Properties of the descriptors.  The expected values are computed from   *)
(* the reference points directly, not through the Description.             *)
(***************************************************************************)
Returned == phase = "returned" /\ raised = "none"

AllDists(ref, p) == [i \in 1..Len(ref) |-> Dist(p, ref[i])]

\* the k smallest distances from p to the reference points, ascending
KNearestDists(ref, p, k) == SubSeq(np_sort(AllDists(ref, p)), 1, k)

\* the reference points other than the i-th
Others(ref, i) == [j \in 1..(Len(ref) - 1) |-> IF j < i THEN ref[j] ELSE ref[j + 1]]

\* the distance from reference point i to its k-th nearest other reference point
KthSelfDist(ref, i, k) == np_sort(AllDists(Others(ref, i), ref[i]))[k]

\* the position of the c-th nearest reference point of p
NeighbourOf(ref, p, k, c) == KNearest(ref, p, k, 1..Len(ref))[c]

Recip1(x) == FDiv(One, FAdd(One, x))

Half == Fin(1, 2)

InUnit(x) == (IsFin(x) /\ 0 <= x.n /\ x.n <= x.d) \/ x.kind = "tiny"

\* C1: an NND query returns, per point, the soft maximum of the proximities of
\* its k nearest distances: the weights (reversed unless max_like) applied to
\* 1/(1+d) from the nearest distance on; the scenario gives [1, 1/8]; a point
\* whose k distances are all 0 scores 1
C1_NNDScores ==
    (Returned /\ description.type = "NND") =>
        LET o == family(description.owa, description.k)
            w == IF o.max_like THEN o.w ELSE np_flip(o.w)
        IN  /\ Len(lastS) = Len(lastQ)
            /\ \A r \in 1..Len(lastQ) :
                  LET d == KNearestDists(index, lastQ[r], description.k)
                  IN  /\ lastS[r] = Dot([c \in 1..Len(d) |-> Recip1(d[c])], w)
                      /\ (\A c \in 1..Len(d) : d[c] = Zero) => lastS[r] = One
            /\ (/\ index = ScenarioRef
                /\ lastQ = ScenarioQuery
                /\ description.k = 1
                /\ description.owa = "trimmed") => lastS = <<One, Fin(1, 8)>>

C1_ScenarioScored ==
    /\ Returned
    /\ description.type = "NND"
    /\ description.owa = "trimmed"
    /\ description.k = 1
    /\ index = ScenarioRef
    /\ lastQ = ScenarioQuery
    /\ lastS = <<One, Fin(1, 8)>>

\* the k the descriptor was given, for this reference set
GivenK ==
    IF descriptor.k.callable THEN KFun(descriptor.k.f, Len(index)) ELSE descriptor.k.val

InvalidK == GivenK \notin 1..Len(index)

\* C2 as claimed: for every descriptor type a Description exists only for a k
\* in 1..n, so fit has failed whenever k is invalid
C2_FitRejectsInvalidK ==
    (phase \in {"fitted", "returned"}) => ~InvalidK

\* C2 as amended: with an invalid k, LNND.fit and LOF.fit fail on the index's
\* rejection of query_self(k) and no Description exists; NND.fit returns a
\* Description holding that k as given, and each query call raises before any
\* score is computed
C2_InvalidKSurfaces ==
    (InvalidK /\ phase # "unfitted") =>
        /\ descriptor.type \in {"LNND", "LOF"} =>
              /\ phase = "failed"
              /\ raised = "fit"
              /\ description = NoDescription
        /\ descriptor.type = "NND" =>
              /\ phase \in {"fitted", "returned"}
              /\ description.k = GivenK
              /\ phase = "returned" => (raised = "query" /\ lastS = <<>>)

C2_NNDQueryRaised ==
    /\ InvalidK
    /\ descriptor.type = "NND"
    /\ phase = "returned"
    /\ raised = "query"

\* C3: a query returns one score per point, each in [0, 1], also when a ratio
\* is degenerate
C3_ScoresInUnitInterval ==
    Returned =>
        /\ Len(lastS) = Len(lastQ)
        /\ \A r \in 1..Len(lastS) : InUnit(lastS[r])

\* an LOF query of a point that coincides with its k neighbours, all of
\* infinite density: the ratio is inf/inf
C3_DegenerateScored ==
    /\ Returned
    /\ description.type = "LOF"
    /\ \E r \in 1..Len(lastQ) :
          /\ \A c \in 1..description.k :
                /\ KNearestDists(index, lastQ[r], description.k)[c] = Zero
                /\ description.lrd[NeighbourOf(index, lastQ[r], description.k, c)] = Inf
          /\ lastS[r] = Half

\* the k-th neighbour distance of query point r and the fitted self-distance
\* of its k-th nearest reference point
QueryKthDist(r) == KNearestDists(index, lastQ[r], description.k)[description.k]

QueryKthSelf(r) ==
    KthSelfDist(index,
                NeighbourOf(index, lastQ[r], description.k, description.k),
                description.k)

LastLocalised ==
    LET q == index_query(description.index, lastQ, description.k)
    IN  LNND_l_distances(description, q.neighbours, q.distances)

\* C4 as claimed: a positive distance over a zero self-distance reaches the
\* proximity transform as infinity
C4_InfinityReachesTransform ==
    (Returned /\ description.type = "LNND") =>
        \A r \in 1..Len(lastQ) :
            (QueryKthDist(r) # Zero /\ QueryKthSelf(r) = Zero) => LastLocalised[r] = Inf

\* C4 as amended: it reaches the transform as the largest finite float, and
\* the score is 1/(1 + that), not 0
C4_InfinityReplacedByLargestFloat ==
    (Returned /\ description.type = "LNND") =>
        \A r \in 1..Len(lastQ) :
            (QueryKthDist(r) # Zero /\ QueryKthSelf(r) = Zero) =>
                (LastLocalised[r] = FloatMax /\ lastS[r] = FloatTiny)

C4_PositiveOverZero ==
    /\ Returned
    /\ description.type = "LNND"
    /\ \E r \in 1..Len(lastQ) : QueryKthDist(r) # Zero /\ QueryKthSelf(r) = Zero

\* C5: in an LNND or LOF query a NaN ratio that comes from a NaN distance of
\* the index (here: of a query point with a NaN coordinate) is returned as a
\* NaN score
C5_OtherNaNSurfaces ==
    (Returned /\ description.type \in {"LNND", "LOF"}) =>
        \A r \in 1..Len(lastQ) : IsNaN(lastQ[r]) => IsNaN(lastS[r])

\* the localised distance ratio of query point r, 0/0 taken as 1
Ratio(r) ==
    IF QueryKthDist(r) = Zero /\ QueryKthSelf(r) = Zero THEN One
    ELSE FDiv(QueryKthDist(r), QueryKthSelf(r))

SelfDistancesFitted ==
    /\ Len(description.distances) = Len(index)
    /\ \A i \in 1..Len(index) :
          description.distances[i] = KthSelfDist(index, i, description.k)

\* C6 as claimed: the fitted self-distances are the k-th self-distances and
\* every score is 1/(1+l), l = d_p / selfDistances[r] with 0/0 = 1; equal
\* positive distances score 1/2 and two zero distances score 1
C6_LNNDScores ==
    (Returned /\ description.type = "LNND") =>
        /\ SelfDistancesFitted
        /\ \A r \in 1..Len(lastQ) :
              /\ lastS[r] = Recip1(Ratio(r))
              /\ (QueryKthDist(r) = QueryKthSelf(r) /\ QueryKthDist(r) # Zero)
                    => lastS[r] = Half
              /\ (QueryKthDist(r) = Zero /\ QueryKthSelf(r) = Zero) => lastS[r] = One

\* C6 as amended: the same, except that an infinite l (d_p > 0 over a zero
\* self-distance) is replaced by the largest finite float before 1/(1+l), and
\* that two zero distances, l = 1, score 1/2 like equal positive distances
C6_LNNDScoresAsComputed ==
    (Returned /\ description.type = "LNND") =>
        /\ SelfDistancesFitted
        /\ Len(lastS) = Len(lastQ)
        /\ \A r \in 1..Len(lastQ) :
              /\ lastS[r] = Recip1(IF Ratio(r) = Inf THEN FloatMax ELSE Ratio(r))
              /\ QueryKthDist(r) = QueryKthSelf(r) => lastS[r] = Half

C6_EqualPositiveDistances ==
    /\ Returned
    /\ description.type = "LNND"
    /\ description.k > 1
    /\ \E r \in 1..Len(lastQ) :
          /\ QueryKthDist(r) = QueryKthSelf(r)
          /\ QueryKthDist(r) # Zero
          /\ lastS[r] = Half

\* the sum of the reachability distances from p to the reference points nbrs
RECURSIVE ReachSum(_, _, _, _)
ReachSum(ref, p, nbrs, k) ==
    IF nbrs = <<>> THEN Zero
    ELSE FAdd(np_maximum(Dist(p, ref[Head(nbrs)]), KthSelfDist(ref, Head(nbrs), k)),
              ReachSum(ref, p, Tail(nbrs), k))

\* 1 / mean of the reachability distances
LRD(ref, p, nbrs, k) == FDiv(Int2F(k), ReachSum(ref, p, nbrs, k))

SelfLRD(ref, i, k) ==
    LRD(ref, ref[i], KNearest(ref, ref[i], k, (1..Len(ref)) \ {i}), k)

RECURSIVE SelfLRDSum(_, _, _)
SelfLRDSum(ref, nbrs, k) ==
    IF nbrs = <<>> THEN Zero
    ELSE FAdd(SelfLRD(ref, Head(nbrs), k), SelfLRDSum(ref, Tail(nbrs), k))

\* numerator and denominator of the LOF of query point r
LOFNum(r) ==
    FDiv(SelfLRDSum(index, KNearest(index, lastQ[r], description.k, 1..Len(index)),
                    description.k),
         Int2F(description.k))

LOFDen(r) ==
    LRD(index, lastQ[r], KNearest(index, lastQ[r], description.k, 1..Len(index)),
        description.k)

LRDFitted ==
    /\ Len(description.lrd) = Len(index)
    /\ \A i \in 1..Len(index) : description.lrd[i] = SelfLRD(index, i, description.k)

\* C7 as claimed: the fitted lrd and the scores 1/(1+LOF), LOF the ratio of
\* mean neighbour lrd to the point's lrd, taken as 1 when both are zero
C7_LOFScores ==
    (Returned /\ description.type = "LOF") =>
        /\ LRDFitted
        /\ \A r \in 1..Len(lastQ) :
              lastS[r] = Recip1(IF LOFNum(r) = Zero /\ LOFDen(r) = Zero THEN One
                                ELSE FDiv(LOFNum(r), LOFDen(r)))

\* C7 as amended: LOF is taken as 1 whenever the ratio is NaN, which is when
\* numerator and denominator are both infinite (or both zero)
C7_LOFScoresNaNAsOne ==
    (Returned /\ description.type = "LOF") =>
        /\ LRDFitted
        /\ Len(lastS) = Len(lastQ)
        /\ \A r \in 1..Len(lastQ) :
              lastS[r] = Recip1(IF \/ (LOFNum(r) = Inf /\ LOFDen(r) = Inf)
                                   \/ (LOFNum(r) = Zero /\ LOFDen(r) = Zero)
                                THEN One
                                ELSE FDiv(LOFNum(r), LOFDen(r)))

C7_BothDensitiesInfinite ==
    /\ Returned
    /\ description.type = "LOF"
    /\ \E r \in 1..Len(lastQ) :
          LOFNum(r) = Inf /\ LOFDen(r) = Inf /\ lastS[r] = Half

\* C10: after any sequence of query calls the Description is as fit returned
\* it, and a query call returns the scores that Description gives for its
\* input, whatever was queried before
C10_QueryLeavesFittedState ==
    (phase \in {"fitted", "returned"}) =>
        /\ description = fitted
        /\ Returned => lastS = Description_query(fitted, lastQ).scores

C10_QueriedAgain ==
    /\ Returned
    /\ queried
    /\ description.type = "LOF"
    /\ description = fitted

(***************************************************************************)
(* Properties of the OWA operators.                                        *)
(***************************************************************************)
\* the j-th smallest and the j-th largest of the values in v
KthSmallest(v, j) == np_sort(v)[j]

KthLargest(v, j) == np_sort(v)[Len(v) + 1 - j]

IsTrimmed(o) == o.k >= 1 /\ o = trimmed(o.k)

\* C8: for every k >= 1 and every input with at least k values, trimmed(k)'s
\* soft maximum is the k-th largest value and its soft minimum the k-th smallest
C8_TrimmedSelectsKth ==
    (phase = "owa" /\ IsTrimmed(op)) =>
        /\ out.kind = "soft_max" => out.value = KthLargest(vals, op.k)
        /\ out.kind = "soft_min" => out.value = KthSmallest(vals, op.k)

\* the dual operator: the reversed weight vector with the flipped max_like flag
Dual(o) == OWAOperator(np_flip(o.w), ~o.max_like)

Negated(v) == [i \in 1..Len(v) |-> FNeg(v[i])]

\* C9: for every weight vector, both max_like flags and every input with at
\* least k values, soft_min(v) = -D.soft_max(-v) for the dual operator D, and
\* soft_min weighs the k smallest values, taken from the largest of them down,
\* with w in its given order when max_like is false and reversed when it is true
C9_SoftMinDualOfSoftMax ==
    (phase = "owa" /\ out.kind = "soft_min") =>
        /\ out.value = FNeg(soft_max(Dual(op), Negated(vals)))
        /\ out.value = Dot(np_flip(SubSeq(np_sort(vals), 1, op.k)),
                           IF op.max_like THEN np_flip(op.w) ELSE op.w)

====
